---- MODULE Spec2Model ----
(***************************************************************************)
(* A model of the geometric primitives of scikit-nano (Point and Vector,   *)
(* both numpy.ndarray subclasses) and of the nanotube unit-cell generator. *)
(*                                                                         *)
(* Numbers.  Component values are fixed-point: the integer k stands for    *)
(* the real number k / Scale.  A float64 buffer stores any k; an integer   *)
(* buffer (a Vector built from a sequence of Python ints keeps numpy's     *)
(* integer dtype) stores whole numbers only, and numpy's item assignment   *)
(* casts by truncation toward zero (ToDtype).                              *)
(*                                                                         *)
(* Objects.  numpy buffers live in `heap` and are known by their address,  *)
(* so that two objects sharing a buffer (a view) or a Vector sharing its   *)
(* Point objects with another is visible.  Every constructor is called     *)
(* with dtype=None, its default, as every call in the repository does.     *)
(***************************************************************************)
EXTENDS Integers, Sequences, FiniteSets, TLC

VARIABLES
    heap,       \* the numpy buffers: a sequence, buffer a is heap[a]
    vectors,    \* the Vector objects, by name
    points,     \* the Point objects, by name
    last,       \* the operation that produced this state, with its arguments
    gen,        \* the SWNTGenerator object
    pdb         \* the last call of PDBWriter.write, and the file at its path

vars == <<heap, vectors, points, last, gen, pdb>>

-----------------------------------------------------------------------------
(* Bounds of the model *)

\* k stands for k / Scale
Scale == 2
\* coordinates handed to constructors and setters range over -1 .. MaxCoord
MaxCoord == 2
\* tolerances handed to rezero range over 0 .. MaxEps
MaxEps == 2
\* a Vector, and an instance constructed from another one, is mutated at most
\* MaxSteps times after its construction
MaxSteps == 2

CoordInputs == (-1) .. MaxCoord
\* the values written into a component of a Vector
WriteInputs == {-1, MaxCoord}
EpsInputs == 0 .. MaxEps

Abs(x) == IF x >= 0 THEN x ELSE -x

\* int(x), and numpy's float -> integer cast: truncation toward zero
Trunc(x) == IF x >= 0 THEN (x \div Scale) * Scale ELSE -(((-x) \div Scale) * Scale)

\* the value a buffer of the given dtype keeps when x is assigned to an item
ToDtype(dtype, x) == IF dtype = "int" THEN Trunc(x) ELSE x

\* None, where an object holds the address of a buffer
None == 0

NoObj == [kind |-> "none", data |-> None, nd |-> 0, p |-> None, p0 |-> None,
          dtype |-> "float", dict |-> <<>>, via |-> ""]

NoOp ==
    [op |-> "init", tgt |-> "", name |-> "", val |-> 0, seq |-> <<>>, n |-> 0,
     prevop |-> "", prevval |-> 0]

\* a constructor call
Op(op, tgt, name, val, seq) ==
    [op |-> op, tgt |-> tgt, name |-> name, val |-> val, seq |-> seq, n |-> 0,
     prevop |-> last.op, prevval |-> last.val]

\* a mutation of a Point; those of the Point "b", an instance constructed
\* from another, are counted
PointOp(op, tgt, name, val, seq) ==
    [op |-> op, tgt |-> tgt, name |-> name, val |-> val, seq |-> seq,
     n |-> IF tgt = "b" THEN last.n + 1 ELSE 0,
     prevop |-> last.op, prevval |-> last.val]

\* a mutation of a Vector: the n-th since its construction
Mutation(op, tgt, name, val, seq) ==
    [op |-> op, tgt |-> tgt, name |-> name, val |-> val, seq |-> seq,
     n |-> last.n + 1, prevop |-> last.op, prevval |-> last.val]

Names == {"x", "y", "z"}

\* the component a named alias stands for (1-based)
AliasIndex(name) == IF name = "x" THEN 1 ELSE IF name = "y" THEN 2 ELSE 3

\* whether __getattr__/__setattr__ treat `name` as a component alias
IsAlias(nd, name) ==
    \/ nd = 2 /\ name \in {"x", "y"}
    \/ nd = 3 /\ name \in {"x", "y", "z"}

\* the instance __dict__ after an ordinary attribute write
DictSet(d, name, value) ==
    [n \in (DOMAIN d) \cup {name} |-> IF n = name THEN value ELSE d[n]]

Zeros(n) == [i \in 1 .. n |-> 0]

\* the sequences of n coordinates handed to Vector() or to a setter of it:
\* c, c + 1, c + 2 (in units of 1 / Scale) from every start c
PointInputs(n) == { [i \in 1 .. n |-> c + (i - 1)] : c \in CoordInputs }

\* the same sequences of Python ints: c stands for the integer c
IntInputs(n) == { [i \in 1 .. n |-> Scale * v[i]] : v \in PointInputs(n) }

-----------------------------------------------------------------------------
(* numpy item assignment *)

\* self[i] = value on the buffer at address a
SetItem(h, a, i, dtype, value) == [h EXCEPT ![a][i] = ToDtype(dtype, value)]

\* self[:] = values on the buffer at address a
SetSlice(h, a, dtype, values) ==
    [h EXCEPT ![a] = [i \in DOMAIN h[a] |-> ToDtype(dtype, values[i])]]

\* self[np.where(np.abs(self) <= epsilon)] = 0.0
RezeroShrink(buf, epsilon) ==
    [i \in DOMAIN buf |->
        IF Abs(buf[i]) <= epsilon THEN 0
        ELSE IF buf[i] > 0 THEN buf[i] - epsilon ELSE buf[i] + epsilon]

RezeroStrict(buf, epsilon) ==
    [i \in DOMAIN buf |-> IF Abs(buf[i]) < epsilon THEN 0 ELSE buf[i]]

Rezero(buf, epsilon) ==
    [i \in DOMAIN buf |-> IF Abs(buf[i]) <= epsilon THEN 0 ELSE buf[i]]

-----------------------------------------------------------------------------
(* Point *)

\* An item of a coordinate sequence handed to Point(): <<>> is None (a
\* missing component), <<c>> the number c.
ItemInputs == {<<>>} \cup { <<c>> : c \in CoordInputs }

SequenceKinds == {"tuple", "list", "ndarray"}

\* the sequences of 2 or 3 items
SequenceInputs == UNION { [1 .. n -> ItemInputs] : n \in {2, 3} }

HasNone(items) == \E i \in DOMAIN items : items[i] = <<>>

\* Point.__new__, the branch of a tuple, list or ndarray: the components the
\* new Point holds.  `p[i] = 0.0` raises TypeError on a tuple, and the handler
\* of that TypeError replaces p by zeros.
PointFromSequence(kind, items) ==
    IF kind = "tuple" /\ HasNone(items)
    THEN Zeros(Len(items))
    ELSE [i \in DOMAIN items |-> IF items[i] = <<>> THEN 0 ELSE items[i][1]]

\* The nd argument: None, a value that is no number, or a number (fixed-point,
\* so that int(nd) truncates), negative ones included.
NdInputs ==
    {[kind |-> "none", val |-> 0], [kind |-> "other", val |-> 0]}
        \cup { [kind |-> "number", val |-> k] : k \in (-Scale) .. (3 * Scale + 1) }

\* Point.__new__, the branch of any other p: the number of components
PointDefaultNdNoFallback(ndarg) ==
    IF ndarg.kind = "none" THEN 3 ELSE Trunc(ndarg.val) \div Scale

PointDefaultNd(ndarg) ==
    IF ndarg.kind # "number" THEN 3 ELSE Trunc(ndarg.val) \div Scale

\* np.zeros(nd) raises ValueError for a negative nd
PointDefaultRaises(ndarg) == PointDefaultNd(ndarg) < 0

\* a new Point object over the buffer at address a (pt.nd = nd; the alias
\* assignments `pt.x, pt.y = pt` write each component onto itself)
PointObj(a, n) ==
    [kind |-> "Point", data |-> a, nd |-> n, p |-> None, p0 |-> None,
     dtype |-> "float", dict |-> <<>>, via |-> "new"]

\* Point.__getattr__ after the ordinary lookup: <<value>>, or <<>> for an
\* AttributeError
PointGetAttr(h, P, name) ==
    IF name \in DOMAIN P.dict THEN <<P.dict[name]>>
    ELSE LET nd == Len(h[P.data]) IN
         IF nd = 2 /\ name \in {"x", "y"}
         THEN IF name = "x" THEN <<h[P.data][1]>> ELSE <<h[P.data][2]>>
         ELSE IF nd = 3 /\ name \in {"x", "y", "z"}
         THEN IF name = "x" THEN <<h[P.data][1]>>
              ELSE IF name = "y" THEN <<h[P.data][2]>> ELSE <<h[P.data][3]>>
         ELSE <<>>

\* Point.__setattr__ for a name in x, y, z: the heap afterwards
PointSetAttrHeapSwapped(h, P, name, value) ==
    IF P.nd = 2 /\ name \in {"x", "y"}
    THEN IF name = "x" THEN SetItem(h, P.data, 1, P.dtype, value)
         ELSE SetItem(h, P.data, 1, P.dtype, value)
    ELSE IF P.nd = 3 /\ name \in {"x", "y", "z"}
    THEN IF name = "x" THEN SetItem(h, P.data, 1, P.dtype, value)
         ELSE IF name = "y" THEN SetItem(h, P.data, 1, P.dtype, value)
         ELSE SetItem(h, P.data, 3, P.dtype, value)
    ELSE h

PointSetAttrHeap(h, P, name, value) ==
    IF P.nd = 2 /\ name \in {"x", "y"}
    THEN IF name = "x" THEN SetItem(h, P.data, 1, P.dtype, value)
         ELSE SetItem(h, P.data, 2, P.dtype, value)
    ELSE IF P.nd = 3 /\ name \in {"x", "y", "z"}
    THEN IF name = "x" THEN SetItem(h, P.data, 1, P.dtype, value)
         ELSE IF name = "y" THEN SetItem(h, P.data, 2, P.dtype, value)
         ELSE SetItem(h, P.data, 3, P.dtype, value)
    ELSE h

\* Point.__setattr__: the instance __dict__ afterwards (the else branch,
\* an ordinary attribute)
PointSetAttrDict(P, name, value) ==
    IF IsAlias(P.nd, name) THEN P.dict ELSE DictSet(P.dict, name, value)

\* Point(p) for p a Point: p.view(cls), copied when copy is set.  The view
\* shares p's buffer; __array_finalize__ sets nd = len(p).
PointFromPointHeap(h, P, copy) == IF copy THEN Append(h, h[P.data]) ELSE h

PointFromPointObj(h, P, copy) ==
    [PointObj(IF copy THEN Len(h) + 1 ELSE P.data, Len(h[P.data]))
        EXCEPT !.via = IF copy THEN "copy" ELSE "view"]

\* Point(p) for p a tuple, a list or an ndarray
PointNewSequence ==
    /\ points["a"].kind = "none"
    /\ vectors["v"].kind = "none"
    /\ last.op = "init"
    /\ \E kind \in SequenceKinds, items \in SequenceInputs :
         LET buf == PointFromSequence(kind, items) IN
         /\ heap' = Append(heap, buf)
         /\ points' = [points EXCEPT !["a"] = PointObj(Len(heap) + 1, Len(buf))]
         /\ last' = Op("Point(seq)", "a", kind, 0, items)
    /\ UNCHANGED <<vectors, gen, pdb>>

\* Point(p, nd) for any other p (None, a scalar, a string, ...)
PointNewDefault ==
    /\ points["a"].kind = "none"
    /\ vectors["v"].kind = "none"
    /\ last.op = "init"
    /\ \E ndarg \in NdInputs :
         LET n == PointDefaultNd(ndarg) IN
         IF PointDefaultRaises(ndarg)
         THEN /\ last' = Op("Point(nd) raises", "a", ndarg.kind, ndarg.val, <<>>)
              /\ UNCHANGED <<heap, points>>
         ELSE /\ heap' = Append(heap, Zeros(n))
              /\ points' = [points EXCEPT !["a"] = PointObj(Len(heap) + 1, n)]
              /\ last' = Op("Point(nd)", "a", ndarg.kind, ndarg.val, <<>>)
    /\ UNCHANGED <<vectors, gen, pdb>>

\* b = Point(a, copy=copy)
PointNewFromPoint ==
    /\ points["a"].kind = "Point"
    /\ points["b"].kind = "none"
    /\ vectors["v"].kind = "none"
    /\ \E copy \in BOOLEAN :
         /\ heap' = PointFromPointHeap(heap, points["a"], copy)
         /\ points' = [points EXCEPT
                          !["b"] = PointFromPointObj(heap, points["a"], copy)]
         /\ last' = Op("Point(point)", "b", IF copy THEN "copy" ELSE "view", 0, <<>>)
    /\ UNCHANGED <<vectors, gen, pdb>>

\* pt.x = value, pt.y = value, pt.z = value
PointSetAttr(id) ==
    \E name \in Names, value \in CoordInputs :
        /\ points[id].kind = "Point"
        /\ id = "b" => last.n < MaxSteps
        /\ heap' = PointSetAttrHeap(heap, points[id], name, value)
        /\ points' = [points EXCEPT
                         ![id].dict = PointSetAttrDict(points[id], name, value)]
        /\ last' = PointOp("setattr", id, name, value, <<>>)
        /\ UNCHANGED <<vectors, gen, pdb>>

\* pt[i] = value (ndarray.__setitem__); i is 1-based here
PointSetItem(id) ==
    \E value \in CoordInputs :
        /\ points[id].kind = "Point"
        /\ id = "b" => last.n < MaxSteps
        /\ \E i \in DOMAIN heap[points[id].data] :
             /\ heap' = SetItem(heap, points[id].data, i, points[id].dtype, value)
             /\ last' = PointOp("setitem", id, "", value, <<i>>)
        /\ UNCHANGED <<points, vectors, gen, pdb>>

\* pt.rezero_coords(epsilon)
PointRezeroCoords(id) ==
    \E epsilon \in EpsInputs :
        /\ points[id].kind = "Point"
        /\ id = "b" => last.n < MaxSteps
        /\ heap' = [heap EXCEPT ![points[id].data] = Rezero(@, epsilon)]
        /\ last' = PointOp("rezero", id, "", epsilon, <<>>)
        /\ UNCHANGED <<points, vectors, gen, pdb>>

-----------------------------------------------------------------------------
(* Vector *)

VectorObj(a, n, p, p0, dtype) ==
    [kind |-> "Vector", data |-> a, nd |-> n, p |-> p, p0 |-> p0,
     dtype |-> dtype, dict |-> <<>>, via |-> "new"]

\* the Point object a Vector holds as _p or _p0 (nd = len, as
\* Point.__array_finalize__ and Point.__new__ set it)
HeldPoint(h, a) == PointObj(a, Len(h[a]))

\* self[i] = value, then `self._p.<name> = self._p0.<name> + value` inside
\* try/except AttributeError
VectorAliasWrite(h, V, i, name, value) ==
    LET h1 == SetItem(h, V.data, i, V.dtype, value) IN
    IF V.p = None \/ V.p0 = None THEN h1
    ELSE LET got == PointGetAttr(h1, HeldPoint(h1, V.p0), name) IN
         IF got = <<>> THEN h1
         ELSE PointSetAttrHeap(h1, HeldPoint(h1, V.p), name, got[1] + value)

\* Vector.__setattr__ for a name in x, y, z: the heap afterwards
VectorSetAttrHeap(h, V, name, value) ==
    IF V.nd = 2 /\ name \in {"x", "y"}
    THEN IF name = "x" THEN VectorAliasWrite(h, V, 1, "x", value)
         ELSE VectorAliasWrite(h, V, 2, "y", value)
    ELSE IF V.nd = 3 /\ name \in {"x", "y", "z"}
    THEN IF name = "x" THEN VectorAliasWrite(h, V, 1, "x", value)
         ELSE IF name = "y" THEN VectorAliasWrite(h, V, 2, "y", value)
         ELSE VectorAliasWrite(h, V, 3, "z", value)
    ELSE h

\* Vector.__setattr__: the instance __dict__ afterwards
VectorSetAttrDict(V, name, value) ==
    IF IsAlias(V.nd, name) THEN V.dict ELSE DictSet(V.dict, name, value)

\* the tail of Vector.__new__: `vec.x, vec.y = vec` or `vec.x, vec.y, vec.z = vec`
VectorAliasInit(h, V) ==
    LET buf == h[V.data] IN
    IF V.nd = 2
    THEN VectorSetAttrHeap(VectorSetAttrHeap(h, V, "x", buf[1]), V, "y", buf[2])
    ELSE IF V.nd = 3
    THEN VectorSetAttrHeap(
             VectorSetAttrHeap(VectorSetAttrHeap(h, V, "x", buf[1]), V, "y", buf[2]),
             V, "z", buf[3])
    ELSE h

Difference(a, b) == [i \in DOMAIN a |-> a[i] - b[i]]

Sum(a, b) == [i \in DOMAIN a |-> a[i] + b[i]]

\* Vector.p.setter: self._p[:] = value; self[:] = self._p - self._p0
VectorSetP(h, V, value) ==
    LET h1 == SetSlice(h, V.p, "float", value) IN
    SetSlice(h1, V.data, V.dtype, Difference(h1[V.p], h1[V.p0]))

\* Vector.p0.setter: self._p0[:] = value; self[:] = self._p - self._p0
VectorSetP0MovesP(h, V, value) ==
    LET h1 == SetSlice(h, V.p0, "float", value) IN
    SetSlice(h1, V.p, "float", Sum(h1[V.p0], h1[V.data]))

VectorSetP0(h, V, value) ==
    LET h1 == SetSlice(h, V.p0, "float", value) IN
    SetSlice(h1, V.data, V.dtype, Difference(h1[V.p], h1[V.p0]))

\* a list of numbers as the items of a coordinate sequence
AsItems(values) == [i \in DOMAIN values |-> <<values[i]>>]

\* The component sequences handed to Vector(): Python ints (numpy keeps an
\* integer dtype) or floats.
ElemTypes == {"int", "float"}

VectorInputs(n, elemtype) ==
    IF elemtype = "int" THEN IntInputs(n) ELSE PointInputs(n)

\* Vector(v, p0=p0arg) for v a tuple, list or ndarray; p0arg = <<>> is None.
\* The heap afterwards: p0, p = p0 + v and the component buffer are new.
VectorFromSequenceHeap(h, v, elemtype, p0arg) ==
    LET nd == Len(v)
        p0 == IF p0arg = <<>> THEN Zeros(PointDefaultNd([kind |-> "number",
                                                          val |-> nd * Scale]))
              ELSE PointFromSequence("list", AsItems(p0arg))
        h3 == h \o <<p0, Sum(p0, v), v>>
    IN  VectorAliasInit(h3, VectorObj(Len(h) + 3, nd, Len(h) + 2, Len(h) + 1, elemtype))

VectorFromSequenceObj(h, v, elemtype) ==
    VectorObj(Len(h) + 3, Len(v), Len(h) + 2, Len(h) + 1, elemtype)

\* The nd argument of Vector(): None, 2 or 3
VectorNdInputs ==
    {[kind |-> "none", val |-> 0]}
        \cup { [kind |-> "number", val |-> n * Scale] : n \in {2, 3} }

\* Vector.__new__, the branch without components: nd as the code leaves it
VectorNd(ndarg) == IF ndarg.kind # "number" THEN 3 ELSE ndarg.val \div Scale

\* the Points Vector(nd=.., p=.., p0=..) builds; an argument <<>> is None
VectorArgPoint(ndarg, arg) ==
    IF arg = <<>>
    THEN Zeros(PointDefaultNd([kind |-> "number", val |-> VectorNd(ndarg) * Scale]))
    ELSE PointFromSequence("list", AsItems(arg))

\* whether Vector(nd=.., p=.., p0=..) raises: p - p0 cannot be broadcast, or
\* the alias assignment unpacks the wrong number of components
VectorFromPointsRaises(ndarg, parg, p0arg) ==
    LET p == VectorArgPoint(ndarg, parg)
        p0 == VectorArgPoint(ndarg, p0arg)
    IN  Len(p) # Len(p0) \/ Len(p) # VectorNd(ndarg)

VectorFromPointsHeap(h, ndarg, parg, p0arg) ==
    LET p == VectorArgPoint(ndarg, parg)
        p0 == VectorArgPoint(ndarg, p0arg)
        h3 == h \o <<p0, p, Difference(p, p0)>>
    IN  VectorAliasInit(h3, VectorObj(Len(h) + 3, VectorNd(ndarg), Len(h) + 2,
                                      Len(h) + 1, "float"))

VectorFromPointsObj(h, ndarg) ==
    VectorObj(Len(h) + 3, VectorNd(ndarg), Len(h) + 2, Len(h) + 1, "float")

\* Vector(v) for v a Vector: v.view(cls), copied when copy is set.
\* __array_finalize__ hands the new object v's own _p and _p0.
VectorFromVectorHeap(h, V, copy) == IF copy THEN Append(h, h[V.data]) ELSE h

VectorFromVectorObj(h, V, copy) ==
    [VectorObj(IF copy THEN Len(h) + 1 ELSE V.data, Len(h[V.data]), V.p, V.p0,
               V.dtype)
        EXCEPT !.via = IF copy THEN "copy" ELSE "view"]

OptionalPoint(n) == {<<>>} \cup PointInputs(n)

\* v = Vector(components, p0=p0arg), the components of one of `types`
VectorNewSequence(types) ==
    /\ vectors["v"].kind = "none"
    /\ points["a"].kind = "none"
    /\ last.op = "init"
    /\ \E n \in {2, 3}, elemtype \in types :
         \E v \in VectorInputs(n, elemtype), p0arg \in OptionalPoint(n) :
           /\ heap' = VectorFromSequenceHeap(heap, v, elemtype, p0arg)
           /\ vectors' = [vectors EXCEPT
                             !["v"] = VectorFromSequenceObj(heap, v, elemtype)]
           /\ last' = Op("Vector(seq)", "v", elemtype, 0, v)
    /\ UNCHANGED <<points, gen, pdb>>

\* v = Vector(nd=ndarg, p=parg, p0=p0arg)
VectorNewPoints ==
    /\ vectors["v"].kind = "none"
    /\ points["a"].kind = "none"
    /\ last.op = "init"
    /\ \E ndarg \in VectorNdInputs :
         \E parg \in OptionalPoint(2) \cup OptionalPoint(3),
            p0arg \in OptionalPoint(2) \cup OptionalPoint(3) :
           IF VectorFromPointsRaises(ndarg, parg, p0arg)
           THEN /\ last' = Op("Vector(p,p0) raises", "v", ndarg.kind, ndarg.val, <<>>)
                /\ UNCHANGED <<heap, vectors>>
           ELSE /\ heap' = VectorFromPointsHeap(heap, ndarg, parg, p0arg)
                /\ vectors' = [vectors EXCEPT
                                  !["v"] = VectorFromPointsObj(heap, ndarg)]
                /\ last' = Op("Vector(p,p0)", "v", ndarg.kind, ndarg.val, <<>>)
    /\ UNCHANGED <<points, gen, pdb>>

\* w = Vector(v, copy=copy)
VectorNewFromVector ==
    /\ vectors["v"].kind = "Vector"
    /\ vectors["w"].kind = "none"
    /\ \E copy \in BOOLEAN :
         /\ heap' = VectorFromVectorHeap(heap, vectors["v"], copy)
         /\ vectors' = [vectors EXCEPT
                           !["w"] = VectorFromVectorObj(heap, vectors["v"], copy)]
         /\ last' = Op("Vector(vector)", "w", IF copy THEN "copy" ELSE "view", 0, <<>>)
    /\ UNCHANGED <<points, gen, pdb>>

\* vec.x = value, vec.y = value, vec.z = value
VectorSetAttr(id) ==
    \E name \in Names, value \in WriteInputs :
        /\ vectors[id].kind = "Vector"
        /\ last.n < MaxSteps
        /\ heap' = VectorSetAttrHeap(heap, vectors[id], name, value)
        /\ vectors' = [vectors EXCEPT
                          ![id].dict = VectorSetAttrDict(vectors[id], name, value)]
        /\ last' = Mutation("setattr", id, name, value, <<>>)
        /\ UNCHANGED <<points, gen, pdb>>

\* vec[i] = value (ndarray.__setitem__, which Vector does not override)
VectorSetItem(id) ==
    \E value \in WriteInputs :
        /\ vectors[id].kind = "Vector"
        /\ last.n < MaxSteps
        /\ \E i \in DOMAIN heap[vectors[id].data] :
             /\ heap' = SetItem(heap, vectors[id].data, i, vectors[id].dtype, value)
             /\ last' = Mutation("setitem", id, "", value, <<i>>)
        /\ UNCHANGED <<points, vectors, gen, pdb>>

\* vec.rezero_components(epsilon)
VectorRezeroComponents(id) ==
    \E epsilon \in EpsInputs :
        /\ vectors[id].kind = "Vector"
        /\ last.n < MaxSteps
        /\ heap' = [heap EXCEPT ![vectors[id].data] = Rezero(@, epsilon)]
        /\ last' = Mutation("rezero", id, "", epsilon, <<>>)
        /\ UNCHANGED <<points, vectors, gen, pdb>>

\* vec.p = value
VectorPSetter(id) ==
    /\ vectors[id].kind = "Vector"
    /\ last.n < MaxSteps
    /\ \E value \in PointInputs(Len(heap[vectors[id].data])) :
         /\ heap' = VectorSetP(heap, vectors[id], value)
         /\ last' = Mutation("p.setter", id, "", 0, value)
    /\ UNCHANGED <<points, vectors, gen, pdb>>

\* vec.p0 = value
VectorP0Setter(id) ==
    /\ vectors[id].kind = "Vector"
    /\ last.n < MaxSteps
    /\ \E value \in PointInputs(Len(heap[vectors[id].data])) :
         /\ heap' = VectorSetP0(heap, vectors[id], value)
         /\ last' = Mutation("p0.setter", id, "", 0, value)
    /\ UNCHANGED <<points, vectors, gen, pdb>>

-----------------------------------------------------------------------------
(* SWNTGenerator.generate_unit_cell *)

(* Lengths of the generator are counted in units of 0.005, half the tolerance
   eps = 0.01 of the wraparound.  The unit cell has N sites; the axial period
   T is N times a whole multiple of 2 * eps, so that tau = M * T / N is exact
   and both T and tau are well above eps.  An
   atom is known by its element, the loop index i that placed it (which fixes
   its x and y, rt * cos(i * psi [+ dpsi]) and rt * sin(i * psi [+ dpsi])) and
   its z. *)

\* eps = 0.01, in units of 0.005
Eps == 2
\* the symmetry parameter N ranges over 1 .. MaxN
MaxN == 3
\* M ranges over 1 .. MaxM
MaxM == 3
\* T / N ranges over 1 .. MaxQ times 2 * eps
MaxQ == 3
\* dtau ranges over 0 .. MaxDtau
MaxDtau == 2
\* generate_unit_cell is called at most MaxCalls times on one generator
MaxCalls == 2

\* the 0.25 added to the upper clip bound of save_data, in units of 0.005
ClipSlack == 50
\* nz ranges over 1/2 .. MaxNz/2
MaxNz == 3
\* 10 * Lz, the requested length, ranges over 1 .. MaxLz times 2 * eps
MaxLz == 1
\* save_data is called at most MaxSaves times on one structure
MaxSaves == 2

ElementInputs == {<<"C", "C">>, <<"B", "N">>}

\* the axial periods T of a cell of N sites: short ones, and one longer than
\* the slack of the clip bound
PeriodInputs(N) == { N * q * 2 * Eps : q \in 1 .. MaxQ } \cup {N * 2 * ClipSlack}

\* an atom collection: the atoms in order, each with its element, its lattice
\* site and its axial coordinate z = num / den, and the angle by which the
\* collection was rotated about the tube axis
NoAtoms == [atoms |-> <<>>, den |-> 1, rot |-> 0]

NoGen ==
    [pc |-> "none", N |-> 0, M |-> 0, T |-> 0, dtau |-> 0, e1 |-> "", e2 |-> "",
     i |-> 0, z |-> 0, unit_cell |-> <<>>, calls |-> 0,
     nz |-> [num |-> 1, den |-> 1], Lz |-> <<>>, fix_Lz |-> FALSE,
     generated |-> FALSE, structure_atoms |-> NoAtoms,
     log |-> <<>>, after_clip |-> NoAtoms, exported |-> <<>>]

\* tau = M * T / N
Tau(g) == (g.M * g.T) \div g.N

\* Atom(element=e, x=.., y=.., z=z); atom.rezero() zeroes a coordinate of
\* absolute value at most 1.0e-10, far below the unit of length, so that it
\* changes no z
Atom(element, i, z) == [element |-> element, site |-> i, z |-> z]

\* the test of the wraparound loops: z > T - eps
WrapsWithoutEps(z, T) == z > T

Wraps(z, T) == z > T - Eps

\* the body of the wraparound loops: z -= T
WrapStepNone(z, T) == z

WrapStep(z, T) == z - T

\* self._unit_cell = Atoms()
KeepUnitCell(cell) == cell

NewUnitCell(cell) == <<>>

\* SWNTGenerator(n=.., m=.., autogen=False): the parameters the SWNT base
\* class derives from the chirality
GeneratorNew ==
    /\ gen.pc = "none"
    /\ points["a"].kind = "none" /\ vectors["v"].kind = "none"
    /\ \E N \in 1 .. MaxN, M \in 1 .. MaxM, dtau \in 0 .. MaxDtau,
          e \in ElementInputs :
       \E T \in PeriodInputs(N) :
         gen' = [NoGen EXCEPT !.pc = "ready", !.N = N, !.M = M, !.T = T,
                              !.dtau = dtau, !.e1 = e[1], !.e2 = e[2]]
    /\ last' = Op("SWNTGenerator", "gen", "", 0, <<>>)
    /\ UNCHANGED <<heap, vectors, points, pdb>>

\* generate_unit_cell, up to the first pass of the loop: i = 1, z1 = i * tau
UnitCellBegin ==
    /\ gen.pc = "ready"
    /\ gen.calls < MaxCalls
    /\ gen' = [gen EXCEPT !.pc = "z1", !.unit_cell = NewUnitCell(@), !.i = 1,
                          !.z = Tau(gen)]
    /\ last' = Op("generate_unit_cell", "gen", "", 0, <<>>)
    /\ UNCHANGED <<heap, vectors, points, pdb>>

\* while z1 > T - eps: z1 -= T
UnitCellWrap1 ==
    /\ gen.pc = "z1"
    /\ Wraps(gen.z, gen.T)
    /\ gen' = [gen EXCEPT !.z = WrapStep(@, gen.T)]
    /\ UNCHANGED <<heap, vectors, points, last, pdb>>

\* atom1 = Atom(element=e1, ..); atom1.rezero(); self.unit_cell.append(atom1);
\* z2 = i * tau - dtau
UnitCellAtom1 ==
    /\ gen.pc = "z1"
    /\ ~Wraps(gen.z, gen.T)
    /\ gen' = [gen EXCEPT !.pc = "z2",
                          !.unit_cell = Append(@, Atom(gen.e1, gen.i, gen.z)),
                          !.z = gen.i * Tau(gen) - gen.dtau]
    /\ UNCHANGED <<heap, vectors, points, last, pdb>>

\* while z2 > T - eps: z2 -= T
UnitCellWrap2 ==
    /\ gen.pc = "z2"
    /\ Wraps(gen.z, gen.T)
    /\ gen' = [gen EXCEPT !.z = WrapStep(@, gen.T)]
    /\ UNCHANGED <<heap, vectors, points, last, pdb>>

\* atom2 = Atom(element=e2, ..); atom2.rezero(); self.unit_cell.append(atom2);
\* then the next i, or the end of the loop and of the call
UnitCellAtom2 ==
    /\ gen.pc = "z2"
    /\ ~Wraps(gen.z, gen.T)
    /\ LET cell == Append(gen.unit_cell, Atom(gen.e2, gen.i, gen.z)) IN
       IF gen.i < gen.N
       THEN gen' = [gen EXCEPT !.pc = "z1", !.unit_cell = cell, !.i = @ + 1,
                               !.z = (gen.i + 1) * Tau(gen)]
       ELSE gen' = [gen EXCEPT !.pc = "ready", !.unit_cell = cell,
                               !.calls = @ + 1]
    /\ UNCHANGED <<heap, vectors, points, last, pdb>>

-----------------------------------------------------------------------------
(* SWNTGenerator.generate_structure_data and save_data *)

(* Of a position the model keeps the axial coordinate, as the fraction
   num / den with one denominator for the whole collection, and the angle of
   rotation about the tube axis; the lattice site of an atom stands for its
   x and y before rotation. *)

\* the nz of SWNTGenerator(.., nz=nz)
NzInputs ==
    { [nz |-> [num |-> k, den |-> 2], Lz |-> <<>>, fix_Lz |-> FALSE] :
        k \in 1 .. MaxNz }

\* SWNTGenerator(.., Lz=Lz, fix_Lz=f): Lz overrides nz, which becomes the
\* requested length 10 * Lz divided by T
LzInputs(T) ==
    { [nz |-> [num |-> 2 * Eps * k, den |-> T], Lz |-> <<2 * Eps * k>>,
       fix_Lz |-> f] : k \in 1 .. MaxLz, f \in BOOLEAN }

\* SWNTGenerator(n=.., m=.., nz=.. or Lz=.., fix_Lz=.., autogen=False)
GeneratorNewLength ==
    /\ gen.pc = "none"
    /\ points["a"].kind = "none" /\ vectors["v"].kind = "none"
    /\ \E N \in 1 .. MaxN, M \in 1 .. MaxM, dtau \in 0 .. MaxDtau,
          e \in ElementInputs :
       \E T \in PeriodInputs(N) :
       \E len \in NzInputs \cup LzInputs(T) :
         gen' = [NoGen EXCEPT !.pc = "ready", !.N = N, !.M = M, !.T = T,
                              !.dtau = dtau, !.e1 = e[1], !.e2 = e[2],
                              !.nz = len.nz, !.Lz = len.Lz,
                              !.fix_Lz = len.fix_Lz]
    /\ last' = Op("SWNTGenerator", "gen", "", 0, <<>>)
    /\ UNCHANGED <<heap, vectors, points, pdb>>

\* int(np.ceil(self.nz)), for nz = num / den
CeilTruncates(nz) == nz.num \div nz.den

Ceil(nz) == (nz.num + nz.den - 1) \div nz.den

\* generate_structure_data: for nz in xrange(int(np.ceil(self.nz))), for every
\* atom of the unit cell, a new Atom of the same element at r + (0, 0, nz * T)
StructureData(g) ==
    LET cell == g.unit_cell
        n == Len(cell)
    IN  [NoAtoms EXCEPT !.atoms =
            [idx \in 1 .. (Ceil(g.nz) * n) |->
                LET k == (idx - 1) \div n
                    j == ((idx - 1) % n) + 1
                IN  Atom(cell[j].element, cell[j].site, cell[j].z + k * g.T)]]

GenerateStructureData ==
    /\ gen.pc = "ready"
    /\ gen.calls >= 1
    /\ gen' = [gen EXCEPT !.generated = TRUE,
                          !.structure_atoms = StructureData(gen),
                          !.log = <<>>, !.after_clip = NoAtoms,
                          !.exported = <<>>]
    /\ last' = Op("generate_structure_data", "gen", "", 0, <<>>)
    /\ UNCHANGED <<heap, vectors, points, pdb>>

\* the atomic mass of an element, to the nearest whole number
Mass(element) ==
    IF element = "B" THEN 11 ELSE IF element = "N" THEN 14 ELSE 12

RECURSIVE SeqSum(_)
SeqSum(values) ==
    IF values = <<>> THEN 0 ELSE Head(values) + SeqSum(Tail(values))

RECURSIVE GCD(_, _)
GCD(a, b) == IF b = 0 THEN a ELSE GCD(b, a % b)

RECURSIVE SeqGCD(_)
SeqGCD(values) ==
    IF values = <<>> THEN 0 ELSE GCD(Abs(Head(values)), SeqGCD(Tail(values)))

\* the same collection with its fractions num / den in lowest terms
Reduced(A) ==
    LET g == GCD(A.den, SeqGCD([j \in DOMAIN A.atoms |-> A.atoms[j].z])) IN
    [A EXCEPT !.den = A.den \div g,
              !.atoms = [j \in DOMAIN A.atoms |->
                            [A.atoms[j] EXCEPT !.z = A.atoms[j].z \div g]]]

\* Atoms.center_CM: every position less the center of mass
CenterCM(A) ==
    IF A.atoms = <<>>
    THEN A
    ELSE LET W == SeqSum([j \in DOMAIN A.atoms |-> Mass(A.atoms[j].element)])
             S == SeqSum([j \in DOMAIN A.atoms |->
                             Mass(A.atoms[j].element) * A.atoms[j].z])
         IN  Reduced([A EXCEPT !.den = A.den * W,
                               !.atoms = [j \in DOMAIN A.atoms |->
                                   [A.atoms[j] EXCEPT !.z = A.atoms[j].z * W - S]]])

\* Atoms.clip_bounds(Cuboid(pmin=[-inf, -inf, zmin], pmax=[inf, inf, zmax]),
\* center_before_clipping): the atoms outside the region are removed
ClipBounds(A, zmin, zmax, center_before_clipping) ==
    LET B == IF center_before_clipping THEN CenterCM(A) ELSE A
        Inside(a) == zmin * B.den <= a.z /\ a.z <= zmax * B.den
    IN  [B EXCEPT !.atoms = SelectSeq(B.atoms, Inside)]

\* Atoms.rotate(R_matrix), for a rotation about the tube axis
Rotate(A, angle) == [A EXCEPT !.rot = (A.rot + angle) % 360]

\* rotation_angle: None or an angle, in degrees
RotationInputs == {<<>>, <<90>>}

\* GeneratorMixin.save_data: centering, rotation, StructureIO.write
MixinSaveData(A, log, center_CM, rotation_angle) ==
    LET c == IF center_CM
             THEN [s |-> CenterCM(A), log |-> Append(log, "center")]
             ELSE [s |-> A, log |-> log]
        r == IF rotation_angle # <<>>
             THEN [s |-> Rotate(c.s, rotation_angle[1]),
                   log |-> Append(c.log, "rotate")]
             ELSE c
    IN  [s |-> r.s, log |-> Append(r.log, "write")]

\* the center_CM that SWNTGenerator.save_data hands to the parent's save_data
ParentCenterCMPassedOn(center_CM) == center_CM

ParentCenterCM(center_CM) == FALSE

\* SWNTGenerator.save_data: the collection and the transforms applied to it,
\* in order, and the collection as the clip step left it
SWNTSaveData(g, center_CM, rotation_angle) ==
    LET clip == g.Lz # <<>> /\ g.fix_Lz
        a == IF clip
             THEN [s |-> ClipBounds(g.structure_atoms, 0, g.Lz[1] + ClipSlack, TRUE),
                   log |-> <<"clip">>]
             ELSE [s |-> g.structure_atoms, log |-> <<>>]
        b == IF center_CM
             THEN [s |-> CenterCM(a.s), log |-> Append(a.log, "center")]
             ELSE a
        w == MixinSaveData(b.s, b.log, ParentCenterCM(center_CM), rotation_angle)
    IN  [s |-> w.s, log |-> w.log,
         after_clip |-> IF clip THEN a.s ELSE NoAtoms]

\* save_data(center_CM=.., rotation_angle=.., rot_axis='z')
SaveData ==
    /\ gen.pc = "ready"
    /\ gen.generated
    /\ Len(gen.exported) < MaxSaves
    /\ \E center_CM \in BOOLEAN, rotation_angle \in RotationInputs :
         LET r == SWNTSaveData(gen, center_CM, rotation_angle) IN
         gen' = [gen EXCEPT !.structure_atoms = r.s, !.log = r.log,
                            !.after_clip = r.after_clip,
                            !.exported = Append(@,
                                [atoms |-> r.s, center_CM |-> center_CM,
                                 rotation_angle |-> rotation_angle])]
    /\ last' = Op("save_data", "gen", "", 0, <<>>)
    /\ UNCHANGED <<heap, vectors, points, pdb>>

-----------------------------------------------------------------------------
(* PDBWriter.write *)

\* the atoms argument has at most MaxAtoms items
MaxAtoms == 3

\* the atoms argument: its kind (an Atoms collection, a plain list, None) and
\* the coordinates it holds, one per item
ArgumentInputs ==
    { [kind |-> k, coords |-> c] :
        k \in {"Atoms", "list"},
        c \in UNION { [1 .. n -> WriteInputs] : n \in 0 .. MaxAtoms } }
      \cup {[kind |-> "None", coords |-> <<>>]}

\* no call yet, and no file
NoPdb ==
    [called |-> FALSE, given |-> [kind |-> "None", coords |-> <<>>],
     atoms |-> [kind |-> "None", coords |-> <<>>], raised |-> "",
     opened |-> FALSE, file |-> <<>>]

\* isinstance(atoms, Atoms)
IsAtomsOrList(atoms) == atoms.kind \in {"Atoms", "list"}

IsAtoms(atoms) == atoms.kind = "Atoms"

\* the lines written: the number of atoms, the comment, one line per atom
PDBLines(coords) ==
    <<[text |-> "Natoms", val |-> Len(coords)], [text |-> "comment", val |-> 0]>>
        \o [j \in DOMAIN coords |-> [text |-> "atom", val |-> coords[j]]]

\* PDBWriter.write(atoms=atoms) over the file `file` (<<>>: no file, <<lines>>:
\* a file of these lines): the exception raised, the argument afterwards,
\* whether open() was called, and the file afterwards.  rezero_coords() has the
\* default tolerance, which is below the resolution of the coordinates.
PDBWriterWrite(atoms, file) ==
    IF ~IsAtoms(atoms)
    THEN [raised |-> "TypeError", atoms |-> atoms, opened |-> FALSE,
          file |-> file]
    ELSE LET coords == Rezero(atoms.coords, 0) IN
         [raised |-> "", atoms |-> [atoms EXCEPT !.coords = coords],
          opened |-> TRUE, file |-> <<PDBLines(coords)>>]

PDBWrite ==
    /\ gen.pc = "none"
    /\ points["a"].kind = "none" /\ vectors["v"].kind = "none"
    /\ \E atoms \in ArgumentInputs :
         LET r == PDBWriterWrite(atoms, pdb.file) IN
         /\ pdb' = [called |-> TRUE, given |-> atoms, atoms |-> r.atoms,
                    raised |-> r.raised, opened |-> r.opened, file |-> r.file]
         /\ last' = Op("PDBWriter.write", "pdb", atoms.kind, 0, <<>>)
    /\ UNCHANGED <<heap, vectors, points, gen>>

Init ==
    /\ heap = <<>>
    /\ vectors = [id \in {"v", "w"} |-> NoObj]
    /\ points = [id \in {"a", "b"} |-> NoObj]
    /\ last = NoOp
    /\ gen = NoGen
    /\ pdb = NoPdb

NextPoint ==
    \/ PointNewSequence
    \/ PointNewDefault
    \/ PointSetAttr("a")
    \/ PointSetItem("a")
    \/ PointRezeroCoords("a")

NextVectorAttr ==
    \/ VectorNewSequence(ElemTypes)
    \/ VectorNewPoints
    \/ VectorSetAttr("v")
    \/ VectorPSetter("v")
    \/ VectorP0Setter("v")

NextVector ==
    \/ NextVectorAttr
    \/ VectorSetItem("v")
    \/ VectorRezeroComponents("v")

NextVectorFloat ==
    \/ VectorNewSequence({"float"})
    \/ VectorNewPoints
    \/ VectorSetAttr("v")
    \/ VectorPSetter("v")
    \/ VectorP0Setter("v")
    \/ VectorSetItem("v")
    \/ VectorRezeroComponents("v")

NextCopy ==
    \/ PointNewSequence
    \/ VectorNewSequence(ElemTypes)
    \/ VectorNewPoints
    \/ PointNewFromPoint
    \/ VectorNewFromVector
    \/ PointSetAttr("b")
    \/ PointSetItem("b")
    \/ PointRezeroCoords("b")
    \/ VectorSetAttr("w")
    \/ VectorSetItem("w")
    \/ VectorRezeroComponents("w")
    \/ VectorPSetter("w")
    \/ VectorP0Setter("w")

NextUnitCell ==
    \/ GeneratorNew
    \/ UnitCellBegin
    \/ UnitCellWrap1
    \/ UnitCellAtom1
    \/ UnitCellWrap2
    \/ UnitCellAtom2

NextStructure ==
    \/ GeneratorNewLength
    \/ (UnitCellBegin /\ gen.calls = 0)
    \/ UnitCellWrap1
    \/ UnitCellAtom1
    \/ UnitCellWrap2
    \/ UnitCellAtom2
    \/ GenerateStructureData
    \/ SaveData

NextWriter == PDBWrite

Next == NextPoint \/ NextVector

\* one Point or one Vector: its construction, then any sequence of mutations
Spec == Init /\ [][Next]_vars

\* one Vector of float components: its construction, then any sequence of
\* mutations
SpecVectorFloat == Init /\ [][NextVectorFloat]_vars

\* one Vector: its construction, then any sequence of attribute writes
SpecVectorAttr == Init /\ [][NextVectorAttr]_vars

\* a Point or a Vector, an instance constructed from it, then any sequence of
\* mutations of the new instance
SpecCopy == Init /\ [][NextCopy]_vars

\* one SWNTGenerator: its construction, then calls of generate_unit_cell
SpecUnitCell == Init /\ [][NextUnitCell]_vars

\* one SWNTGenerator of a given length: its construction, generate_unit_cell,
\* then generate_structure_data and calls of save_data
SpecStructure == Init /\ [][NextStructure]_vars

\* calls of PDBWriter.write on one path
SpecWriter == Init /\ [][NextWriter]_vars

\* the same, where a call of generate_unit_cell that has begun keeps running:
\* the loop is sequential code, and nothing suspends it
SpecUnitCellRuns ==
    /\ Init /\ [][NextUnitCell]_vars
    /\ WF_vars(UnitCellWrap1) /\ WF_vars(UnitCellAtom1)
    /\ WF_vars(UnitCellWrap2) /\ WF_vars(UnitCellAtom2)

-----------------------------------------------------------------------------
(* Properties of Point and Vector *)

Components(id) == heap[vectors[id].data]
Terminal(id) == heap[vectors[id].p]
Origin(id) == heap[vectors[id].p0]
Coords(id) == heap[points[id].data]

VectorMutations == {"setattr", "setitem", "rezero", "p.setter", "p0.setter"}

\* v == p - p0, component by component
VectorRelation(id) ==
    \A i \in DOMAIN Components(id) : Components(id)[i] = Terminal(id)[i] - Origin(id)[i]

\* C1: after every single mutation of a Vector (a component written by index
\* or by named alias, rezero_components, p replaced, p0 replaced) the vector
\* equals p - p0 component by component.
C1_RelationAfterEveryMutation ==
    (vectors["v"].kind = "Vector" /\ last.tgt = "v" /\ last.op \in VectorMutations)
        => VectorRelation("v")

\* C2: a Vector equals p - p0 from its construction on (from a component
\* sequence with or without p0, or from p and/or p0) and after every step of
\* any interleaving of named-alias writes, p replacements and p0 replacements.
C2_RelationOnAttributePaths ==
    vectors["v"].kind = "Vector" => VectorRelation("v")

\* The relation of C2 for the Vectors whose components are floats.
FloatVectorRelation ==
    (vectors["v"].kind = "Vector" /\ vectors["v"].dtype = "float")
        => VectorRelation("v")

\* C3: each mutation path of a Vector changes only what it is meant to.  An
\* alias write v.x = c changes component 0 of v (to c, as the element type of
\* v stores it) and component 0 of p (to p0[0] + c) and nothing else of v, p
\* and p0 (likewise y, z); replacing p sets p to the new value, stores p - p0
\* in v and leaves p0; replacing p0 sets p0 to the new value, stores p - p0 in
\* v and leaves p.
C3_MutationFrame ==
    [][(vectors["v"].kind = "Vector" /\ last'.tgt = "v") =>
         LET V == vectors["v"]
             c == last'.val
             k == IF last'.name = "x" THEN 1 ELSE IF last'.name = "y" THEN 2 ELSE 3
         IN  /\ (last'.op = "setattr" /\ k <= V.nd) =>
                  /\ heap'[V.data][k] = ToDtype(V.dtype, c)
                  /\ heap'[V.p][k] = heap[V.p0][k] + c
                  /\ heap'[V.p0] = heap[V.p0]
                  /\ \A j \in (1 .. V.nd) \ {k} :
                       /\ heap'[V.data][j] = heap[V.data][j]
                       /\ heap'[V.p][j] = heap[V.p][j]
             /\ last'.op = "p.setter" =>
                  /\ heap'[V.p] = last'.seq
                  /\ heap'[V.p0] = heap[V.p0]
                  /\ \A j \in 1 .. V.nd :
                       heap'[V.data][j] =
                           ToDtype(V.dtype, last'.seq[j] - heap[V.p0][j])
             /\ last'.op = "p0.setter" =>
                  /\ heap'[V.p0] = last'.seq
                  /\ heap'[V.p] = heap[V.p]
                  /\ \A j \in 1 .. V.nd :
                       heap'[V.data][j] =
                           ToDtype(V.dtype, heap[V.p][j] - last'.seq[j])
      ]_vars

\* a p0 replacement has acted on a Vector whose p is not the origin
C3_Witness ==
    /\ vectors["v"].kind = "Vector"
    /\ last.op = "p0.setter"
    /\ last.prevop = "setattr"
    /\ \E i \in DOMAIN Terminal("v") : Terminal("v")[i] # 0
    /\ \E i \in DOMAIN Origin("v") : Origin("v")[i] # 0

\* C4: for a Point of 2 or 3 dimensions, after any sequence of alias writes
\* and index writes, reading x, y, z gives component 0, 1, 2; an alias write
\* lands in the component of that index, an index write is read back through
\* the alias of that index; and nd stays the number of components.
C4_AliasIndexSync ==
    (points["a"].kind = "Point" /\ Len(Coords("a")) \in {2, 3}) =>
        LET P == points["a"]
            n == Len(Coords("a"))
        IN  /\ P.nd = n
            /\ PointGetAttr(heap, P, "x") = <<Coords("a")[1]>>
            /\ PointGetAttr(heap, P, "y") = <<Coords("a")[2]>>
            /\ n = 3 => PointGetAttr(heap, P, "z") = <<Coords("a")[3]>>
            /\ (last.op = "setattr" /\ last.name = "x") => Coords("a")[1] = last.val
            /\ (last.op = "setattr" /\ last.name = "y") => Coords("a")[2] = last.val
            /\ (last.op = "setattr" /\ last.name = "z" /\ n = 3)
                  => Coords("a")[3] = last.val
            /\ (last.op = "setitem" /\ last.seq = <<1>>)
                  => PointGetAttr(heap, P, "x") = <<last.val>>
            /\ (last.op = "setitem" /\ last.seq = <<2>>)
                  => PointGetAttr(heap, P, "y") = <<last.val>>
            /\ (last.op = "setitem" /\ last.seq = <<3>>)
                  => PointGetAttr(heap, P, "z") = <<last.val>>

\* y of a 3-dimensional Point was written through its alias, after an index
\* write, and differs from x
C4_Witness ==
    /\ points["a"].kind = "Point"
    /\ points["a"].nd = 3
    /\ last.op = "setattr" /\ last.name = "y" /\ last.val # 0
    /\ last.prevop = "setitem"
    /\ Coords("a")[1] # Coords("a")[2]

\* C5: an instance constructed from a Point or a Vector with copy=True is
\* independent: no later mutation of it changes the components of the
\* original nor, for a Vector, the original's p and p0; one constructed with
\* copy=False shares the original's component data.
C5_CopyIsIndependent ==
    [][/\ (last'.tgt = "b" /\ last'.n > 0 /\ points["b"].via = "copy")
            => heap'[points["a"].data] = heap[points["a"].data]
       /\ (last'.tgt = "w" /\ last'.n > 0 /\ vectors["w"].via = "copy")
            => /\ heap'[vectors["v"].data] = heap[vectors["v"].data]
               /\ heap'[vectors["v"].p] = heap[vectors["v"].p]
               /\ heap'[vectors["v"].p0] = heap[vectors["v"].p0]
       /\ points'["b"].via = "view" => points'["b"].data = points'["a"].data
       /\ vectors'["w"].via = "view" => vectors'["w"].data = vectors'["v"].data
      ]_vars

\* C6: a Point built from a tuple, list or array with missing (None)
\* components has the length of the sequence, 0 for every missing component
\* and the given value for every other.
C6_MissingComponentsDefaultToZero ==
    (last.op = "Point(seq)") =>
        /\ points["a"].kind = "Point"
        /\ Len(Coords("a")) = Len(last.seq)
        /\ \A i \in DOMAIN last.seq :
             Coords("a")[i] = IF last.seq[i] = <<>> THEN 0 ELSE last.seq[i][1]

\* what C7 says of Point(p, nd) once it has returned: with nd None or no
\* number 3 components, all zero, and nd == 3; with a number nd int(nd)
\* components, all zero; and of a Point built from a sequence: nd is the
\* length of the sequence
LenientResult ==
    /\ last.op = "Point(nd)" =>
         /\ points["a"].kind = "Point"
         /\ \A i \in DOMAIN Coords("a") : Coords("a")[i] = 0
         /\ points["a"].nd = Len(Coords("a"))
         /\ last.name # "number" => Len(Coords("a")) = 3
         /\ (last.name = "number" /\ last.val >= 0) =>
              /\ Len(Coords("a")) * Scale <= last.val
              /\ last.val < (Len(Coords("a")) + 1) * Scale
         /\ (last.name = "number" /\ last.val < 0) => Len(Coords("a")) = 0
    /\ last.op = "Point(seq)" =>
         /\ points["a"].kind = "Point"
         /\ points["a"].nd = Len(last.seq)

Target(l) == IF l.tgt \in {"a", "b"} THEN points[l.tgt].data ELSE vectors[l.tgt].data

C9_RezeroIdempotent ==
    [][(/\ last.op = "rezero" /\ last'.op = "rezero"
        /\ last'.tgt = last.tgt /\ last'.val = last.val)
         => heap' = heap]_vars

\* rezero was applied twice in succession, with a tolerance that zeroes some
\* components and keeps others
C9_Witness ==
    /\ last.op = "rezero" /\ last.prevop = "rezero" /\ last.prevval = last.val
    /\ last.val > 0
    /\ \E i \in DOMAIN heap[Target(last)] : heap[Target(last)][i] = 0
    /\ \E i \in DOMAIN heap[Target(last)] : heap[Target(last)][i] # 0

-----------------------------------------------------------------------------
(* Properties of the unit-cell generator *)

\* C10: after every call generate_unit_cell leaves a unit cell of exactly 2N
\* atoms: for i = 1 .. N in ascending order, the atom of element1 placed by
\* pass i, immediately followed by the atom of element2 placed by pass i.
C10_UnitCellCountAndOrder ==
    (gen.pc = "ready" /\ gen.calls >= 1) =>
        /\ Len(gen.unit_cell) = 2 * gen.N
        /\ \A i \in 1 .. gen.N :
             /\ gen.unit_cell[2 * i - 1].element = gen.e1
             /\ gen.unit_cell[2 * i - 1].site = i
             /\ gen.unit_cell[2 * i].element = gen.e2
             /\ gen.unit_cell[2 * i].site = i

\* generate_unit_cell has returned a second time, for a cell of several
\* sites and two different elements
C10_Witness ==
    /\ gen.pc = "ready" /\ gen.calls = 2
    /\ gen.N >= 2 /\ gen.e1 # gen.e2
    /\ Len(gen.unit_cell) = 2 * gen.N

\* the raw axial coordinate of the j-th atom of the unit cell: i * tau for
\* atom 1 of pass i, i * tau - dtau for atom 2
RawZ(j) ==
    LET i == gen.unit_cell[j].site IN
    IF j % 2 = 1 THEN i * Tau(gen) ELSE i * Tau(gen) - gen.dtau

\* C11: every atom appended to the unit cell has z <= T - eps; its z is the
\* raw value less a non-negative whole multiple of T; and an atom whose raw z
\* is at most T - eps keeps it.
C11_WrappedBelowPeriod ==
    \A j \in DOMAIN gen.unit_cell :
        LET z == gen.unit_cell[j].z IN
        /\ z <= gen.T - Eps
        /\ RawZ(j) - z >= 0
        /\ (RawZ(j) - z) % gen.T = 0
        /\ RawZ(j) <= gen.T - Eps => z = RawZ(j)

\* the unit cell holds an atom whose raw z was exactly T and was shifted,
\* and one that was not shifted
C11_Witness ==
    /\ \E j \in DOMAIN gen.unit_cell :
         RawZ(j) = gen.T /\ gen.unit_cell[j].z = 0
    /\ \E j \in DOMAIN gen.unit_cell :
         RawZ(j) > 0 /\ gen.unit_cell[j].z = RawZ(j)

\* C12: every atom of a generated unit cell has 0 <= z < T.
C12_WithinOnePeriod ==
    \A j \in DOMAIN gen.unit_cell :
        /\ 0 <= gen.unit_cell[j].z
        /\ gen.unit_cell[j].z < gen.T

\* C17: generate_unit_cell terminates: with N >= 1 and T > 0, a call that
\* has entered its loop leaves it, each wraparound loop subtracting T only
\* finitely often.
C17_UnitCellTerminates ==
    (gen.pc \in {"z1", "z2"} /\ gen.N >= 1 /\ gen.T > 0) ~> (gen.pc = "ready")

\* a call has returned whose last atom went through the wraparound loop
\* several times
C17_Witness ==
    /\ gen.pc = "ready" /\ gen.calls >= 1
    /\ gen.T > 0
    /\ RawZ(Len(gen.unit_cell)) - gen.unit_cell[Len(gen.unit_cell)].z >= 2 * gen.T

\* C13: generate_structure_data produces exactly 2N * ceil(nz) atoms: for
\* each replica k = 0 .. ceil(nz) - 1 in ascending order and each atom j of
\* the unit cell in order, a new atom of the same element at the position of
\* atom j plus (0, 0, k * T), not rewrapped; the unit cell is left as it was.
C13_ReplicatedStructure ==
    [][last'.op = "generate_structure_data" =>
         LET S == gen'.structure_atoms
             cell == gen.unit_cell
             c == Len(S.atoms) \div (2 * gen.N)
         IN  /\ Len(cell) = 2 * gen.N
             /\ Len(S.atoms) = 2 * gen.N * c
             /\ c * gen.nz.den >= gen.nz.num
             /\ (c - 1) * gen.nz.den < gen.nz.num
             /\ S.den = 1 /\ S.rot = 0
             /\ \A k \in 0 .. (c - 1) : \A j \in 1 .. (2 * gen.N) :
                  LET a == S.atoms[k * 2 * gen.N + j] IN
                  /\ a.element = cell[j].element
                  /\ a.site = cell[j].site
                  /\ a.z = cell[j].z + k * gen.T
             /\ gen'.unit_cell = cell
      ]_vars

\* a structure of two replicas was generated for a fractional nz, from a unit
\* cell of several sites
C13_Witness ==
    /\ last.op = "generate_structure_data"
    /\ gen.N >= 2
    /\ gen.nz.den = 2 /\ gen.nz.num = 3
    /\ Len(gen.structure_atoms.atoms) = 4 * gen.N

\* the places of a transform in the log of a save_data call
Places(name) == { k \in DOMAIN gen.log : gen.log[k] = name }

\* C14: every save_data applies its transforms in the order clip (only for a
\* requested fixed length), centering (only with center_CM), rotation (only
\* with a rotation_angle), and then one call of the writer; the centering is
\* applied at most once.
C14_SaveDataOrder ==
    last.op = "save_data" =>
        LET call == gen.exported[Len(gen.exported)] IN
        /\ Cardinality(Places("write")) = 1
        /\ Places("write") = {Len(gen.log)}
        /\ Cardinality(Places("clip")) = IF gen.Lz # <<>> /\ gen.fix_Lz THEN 1 ELSE 0
        /\ Cardinality(Places("center")) = IF call.center_CM THEN 1 ELSE 0
        /\ Cardinality(Places("rotate")) = IF call.rotation_angle # <<>> THEN 1 ELSE 0
        /\ \A k \in DOMAIN gen.log : gen.log[k] \in {"clip", "center", "rotate", "write"}
        /\ \A c \in Places("clip") : \A k \in Places("center") : c < k
        /\ \A c \in Places("clip") \cup Places("center") :
             \A k \in Places("rotate") : c < k

\* a save_data with a fixed length, centering and a rotation has run
C14_Witness ==
    /\ last.op = "save_data"
    /\ gen.log = <<"clip", "center", "rotate", "write">>

\* C15: with a requested fixed length, after the clip step of save_data every
\* retained atom has its axial coordinate within [0, requested length] in the
\* recentered frame.
C15_ClippedToRequestedLength ==
    (last.op = "save_data" /\ gen.Lz # <<>> /\ gen.fix_Lz) =>
        \A j \in DOMAIN gen.after_clip.atoms :
            /\ 0 <= gen.after_clip.atoms[j].z
            /\ gen.after_clip.atoms[j].z <= gen.Lz[1] * gen.after_clip.den

\* C18: two save_data calls in succession with the same arguments hand the
\* writer the same atom collection.
C18_SaveDataRepeatable ==
    \A k \in DOMAIN gen.exported : \A l \in DOMAIN gen.exported :
        (/\ gen.exported[k].center_CM = gen.exported[l].center_CM
         /\ gen.exported[k].rotation_angle = gen.exported[l].rotation_angle)
            => gen.exported[k].atoms = gen.exported[l].atoms

-----------------------------------------------------------------------------
(* Properties of the PDB writer *)

\* C16: PDBWriter.write with an argument that is no atom collection raises
\* TypeError without opening or writing a file and without changing the
\* argument; with an atom collection it opens the file and writes one line
\* per atom (after the line of the count and the comment line).
C16_WriterRejectsNonAtoms ==
    [][last'.op = "PDBWriter.write" =>
         IF pdb'.given.kind # "Atoms"
         THEN /\ pdb'.raised = "TypeError"
              /\ ~pdb'.opened
              /\ pdb'.file = pdb.file
              /\ pdb'.atoms = pdb'.given
         ELSE /\ pdb'.raised = ""
              /\ pdb'.opened
              /\ Len(pdb'.file[1]) = 2 + Len(pdb'.given.coords)
              /\ \A j \in DOMAIN pdb'.given.coords :
                   pdb'.file[1][2 + j].text = "atom"
      ]_vars

\* a list of several items was handed to the writer on a path without a
\* file, and was refused
C16_Witness ==
    /\ pdb.called /\ pdb.given.kind = "list"
    /\ Len(pdb.given.coords) >= 2
    /\ pdb.raised = "TypeError"
    /\ pdb.file = <<>>

====
